---- MODULE Spec2Model ----
(***************************************************************************)
(* Model of the pt-user-reading-analysis batch job:                        *)
(*   src/python/run_task.py              the job (module body)             *)
(*   src/python/libs/openai_assistant.py assistant lifecycle, run driver   *)
(*   src/python/libs/data_source.py      warehouse queries, catalog export *)
(*                                                                         *)
(* Texts are sequences of one-character strings.  Three characters of the  *)
(* source are written in ASCII here:  "[" is the opening lenticular        *)
(* bracket, "]" the closing one and "+" the dagger of the citation marker  *)
(* pattern of clean_text.                                                  *)
(***************************************************************************)
EXTENDS Integers, Sequences, FiniteSets, TLC

VARIABLES
    \* ---- clean_text applied to a text (openai_assistant.py:22-26)
    text,        \* the input text
    once,        \* clean_text(text)
    twice,       \* clean_text(clean_text(text))
    cpc,         \* "in" | "once" | "twice"
    \* ---- fetch_all_production_books (data_source.py:129-162)
    rows,        \* the rows cursor.fetchall() returned
    document,    \* the characters written to the temporary file
    epc,         \* "query" | "written"
    \* ---- get_user_read_books (data_source.py:56-106)
    sessions,    \* the reading-session rows of the user, joined to their book
    LIMIT,       \* the LIMIT argument
    recent,      \* the list get_user_read_books returned
    rpc,         \* "in" | "returned"
    \* ---- the warehouse connection (data_source.py:13-30)
    conn,                      \* the module's handle: "none" | "open"
    connections,               \* connections open at the warehouse
    \* ---- run_task.py: the job
    argv,                      \* sys.argv[1]
    pc,                        \* the statement of run_task.py to run next
    raisedAt,                  \* "none", or the statement that raised
    number_of_users,           \* run_task.py:13,15,43
    users,                     \* run_task.py:19
    ui,                        \* position of the for loop of line 20 in users
    processed,                 \* how many users the loop body was entered for
    books,                     \* run_task.py:21
    bi,                        \* position of the for loop of line 24 in books
    prompt_reading_history,    \* run_task.py:23,26
    book_creation_instruction, \* run_task.py:32
    recommendations,           \* run_task.py:36
    \* ---- the hosted assistant service, as the job's calls change it
    vendor,                    \* resource -> "none" | "live" | "deleted"
    svcStatus,                 \* status of the run in flight at the service
    pending,                   \* tool calls the run at the service waits for
    rounds,                    \* times the run has asked for tool outputs
    conversations,             \* the threads the job created, in order
    \* ---- delete_assistant (openai_assistant.py:242-278)
    teardownCalls,             \* calls of delete_assistant
    tpc,                       \* "idle" or the statement of delete_assistant
    vector_store_ids,          \* openai_assistant.py:251
    si,                        \* position of the for loop of line 260
    store_files,               \* vector_store_files.data, line 263
    fi,                        \* position of the for loop of line 266
    attempted,                 \* resources a delete call was issued for
    failedDeletes,             \* resources whose delete call raised
    tdRaised,                  \* statements of delete_assistant that raised
    \* ---- analyze_user_interest / search_books_by_interest
    dpc,                       \* "idle" | "start" | "message" | "run" | "poll"
                               \* | "handle" | "return"
    user_data,                 \* the user_data argument of the call
    thread,                    \* thread.id: position in conversations
    tool_outputs,              \* tool_outputs of the submit call the last step
                               \* made, if it made one
    run_status,                \* status seen by the last retrieve
    tool_calls,                \* the tool calls read at line 138 / 203
    ci,                        \* position of the for loop of line 140 / 205
    recommendation_summary,    \* openai_assistant.py:127,146
    recommended_books,         \* openai_assistant.py:192,211
    lastHandled,               \* the last recommend_books call handled
    handledCount,              \* recommend_books calls handled, up to 2
    polls                      \* retrieve calls of this run, up to MaxPolls

recentVars == <<sessions, LIMIT, recent, rpc>>

pureVars == <<text, once, twice, cpc, rows, document, epc, recentVars>>

dbVars == <<conn, connections>>

convVars == <<conversations>>

jobVars ==
    <<argv, pc, raisedAt, number_of_users, users, ui, processed, books, bi,
      prompt_reading_history, book_creation_instruction, recommendations>>

svcVars == <<vendor, svcStatus, pending, rounds>>

tdVars ==
    <<teardownCalls, tpc, vector_store_ids, si, store_files, fi, attempted,
      failedDeletes, tdRaised>>

drvVars ==
    <<dpc, user_data, thread, tool_outputs, run_status, tool_calls, ci,
      recommendation_summary, recommended_books, lastHandled, handledCount,
      polls>>

vars == <<pureVars, dbVars, convVars, jobVars, svcVars, tdVars, drvVars>>

(***************************************************************************)
(* Bounds of the model.                                                    *)
(***************************************************************************)
MaxPieces == 3     \* a text is the concatenation of at most MaxPieces pieces
MaxRows == 2       \* rows returned by the catalog query
MaxUsers == 2      \* users returned by get_active_users
MaxArg == 2        \* largest integer given on the command line
MaxRounds == 2     \* times one run asks for tool outputs
MaxPolls == 2      \* polls counted per run (the count saturates)
MaxSessions == 3   \* reading-session rows of one user
MaxLimit == 2      \* largest LIMIT get_user_read_books is called with

(***************************************************************************)
(* clean_text: re.sub(r"[\d+:\d+ +source]", "", text).strip()              *)
(***************************************************************************)
Digits == {"1", "2"}
Whitespace == {" "}

\* the literal tail of the pattern, after the second \d+
SourceTail == <<"+", "s", "o", "u", "r", "c", "e", "]">>

RECURSIVE DigitsEnd(_, _)
\* \d+ is greedy: the first index >= i of s that holds no digit
DigitsEnd(s, i) ==
    IF i <= Len(s) /\ s[i] \in Digits THEN DigitsEnd(s, i + 1) ELSE i

HasLiteral(s, i, lit) ==
    /\ i + Len(lit) - 1 <= Len(s)
    /\ \A k \in 1..Len(lit) : s[i + k - 1] = lit[k]

\* the index after a match of the pattern that starts at i, or 0 when the
\* pattern does not match at i.  No digit is ":" or "+", so the greedy \d+
\* never has to give a digit back.
MatchEnd(s, i) ==
    IF i <= Len(s) /\ s[i] = "["
    THEN LET j == DigitsEnd(s, i + 1) IN
         IF j > i + 1 /\ j <= Len(s) /\ s[j] = ":"
         THEN LET k == DigitsEnd(s, j + 1) IN
              IF k > j + 1 /\ HasLiteral(s, k, SourceTail)
              THEN k + Len(SourceTail)
              ELSE 0
         ELSE 0
    ELSE 0

RECURSIVE re_sub(_, _)
\* one left-to-right pass that drops every non-overlapping match
re_sub(s, i) ==
    IF i > Len(s) THEN <<>>
    ELSE LET e == MatchEnd(s, i) IN
         IF e > 0 THEN re_sub(s, e) ELSE <<s[i]>> \o re_sub(s, i + 1)

RECURSIVE lstrip(_)
lstrip(s) == IF s # <<>> /\ Head(s) \in Whitespace THEN lstrip(Tail(s)) ELSE s

RECURSIVE rstrip(_)
rstrip(s) ==
    IF s # <<>> /\ s[Len(s)] \in Whitespace
    THEN rstrip(SubSeq(s, 1, Len(s) - 1))
    ELSE s

strip(s) == rstrip(lstrip(s))

clean_text(t) == strip(re_sub(t, 1))

\* whether the pattern matches somewhere in s
HasMarker(s) == \E i \in 1..Len(s) : MatchEnd(s, i) > 0

(***************************************************************************)
(* Input texts for clean_text: concatenations of pieces of a marker.       *)
(***************************************************************************)
Marker == <<"[", "1", ":", "2">> \o SourceTail

SplitPoints == {1, 3, 4, 5, 11}

Pieces ==
    {Marker, <<" ">>, <<"a">>, <<"1">>}
    \cup {SubSeq(Marker, 1, p) : p \in SplitPoints}
    \cup {SubSeq(Marker, p + 1, Len(Marker)) : p \in SplitPoints}

RECURSIVE Concat(_)
Concat(ps) == IF ps = <<>> THEN <<>> ELSE Head(ps) \o Concat(Tail(ps))

Texts == UNION {{Concat(ps) : ps \in [1..n -> Pieces]} : n \in 0..MaxPieces}

(***************************************************************************)
(* fetch_all_production_books: one json.dumps(...) + "\n" per row.         *)
(***************************************************************************)
QUOTE == "\""
BACKSLASH == "\\"
NEWLINE == "\n"

\* the keys of json_data, as the source spells them (data_source.py:152-154)
KeyBookId == <<"b", "o", "o", "k", "_", "i", "d">>
KeyBookTitle == <<"b", "o", "o", "k", "_", "t", "i", "t", "l", "e">>
KeyBookDescription ==
    <<"b", "o", "o", "k", "_", "D", "e", "s", "c", "r", "i", "p", "t", "i", "o", "n">>

\* as if the values were written without JSON escaping
json_escape_none(c) == <<c>>

\* json.dumps of one character of a str (ensure_ascii leaves ASCII as it is)
json_escape(c) ==
    CASE c = QUOTE -> <<BACKSLASH, QUOTE>>
      [] c = BACKSLASH -> <<BACKSLASH, BACKSLASH>>
      [] c = NEWLINE -> <<BACKSLASH, "n">>
      [] OTHER -> <<c>>

RECURSIVE json_escape_all(_)
json_escape_all(v) ==
    IF v = <<>> THEN <<>> ELSE json_escape(Head(v)) \o json_escape_all(Tail(v))

json_string(v) == <<QUOTE>> \o json_escape_all(v) \o <<QUOTE>>

RECURSIVE json_members(_)
\* items: the dict's (key, value) pairs in insertion order
json_members(items) ==
    IF items = <<>> THEN <<>>
    ELSE json_string(items[1][1]) \o <<":", " ">> \o json_string(items[1][2])
         \o (IF Len(items) > 1 THEN <<",", " ">> ELSE <<>>)
         \o json_members(Tail(items))

json_dumps(items) == <<"{">> \o json_members(items) \o <<"}">>

\* json_data of one row (data_source.py:151-155)
json_data(row) ==
    << <<KeyBookId, row[1]>>,
       <<KeyBookTitle, row[2]>>,
       <<KeyBookDescription, row[3]>> >>

RECURSIVE library_data(_)
\* the loop of data_source.py:149-156
library_data(rs) ==
    IF rs = <<>> THEN <<>>
    ELSE json_dumps(json_data(Head(rs))) \o <<NEWLINE>> \o library_data(Tail(rs))

(***************************************************************************)
(* Reading the exported document back: its lines, and each line as a JSON  *)
(* object with string members.                                             *)
(***************************************************************************)
\* the indexes of doc that hold a line terminator
Newlines(doc) == {i \in 1..Len(doc) : doc[i] = NEWLINE}

\* the indexes at which a line of doc starts
LineStarts(doc) ==
    {b \in {1} \cup {i + 1 : i \in Newlines(doc)} : b <= Len(doc)}

\* the line of doc that starts at b: up to the next terminator or the end
LineFrom(doc, b) ==
    LET ends == {e \in Newlines(doc) \cup {Len(doc) + 1} : e >= b}
        e == CHOOSE x \in ends : \A y \in ends : x <= y
    IN SubSeq(doc, b, e - 1)

\* the lines of doc, in order
Lines(doc) ==
    LET starts == LineStarts(doc)
        nth(k) == CHOOSE b \in starts : Cardinality({c \in starts : c < b}) = k - 1
    IN [k \in 1..Cardinality(starts) |-> LineFrom(doc, nth(k))]

RECURSIVE StringEnd(_, _)
\* the index of the quote that closes a JSON string whose content starts at
\* j, or 0 when the string is not closed or holds a raw control character
StringEnd(s, j) ==
    IF j > Len(s) THEN 0
    ELSE IF s[j] = QUOTE THEN j
    ELSE IF s[j] = NEWLINE THEN 0
    ELSE IF s[j] = BACKSLASH
         THEN IF j + 1 <= Len(s) /\ s[j + 1] \in {QUOTE, BACKSLASH, "n"}
              THEN StringEnd(s, j + 2)
              ELSE 0
    ELSE StringEnd(s, j + 1)

RECURSIVE SkipSpaces(_, _)
SkipSpaces(s, i) ==
    IF i <= Len(s) /\ s[i] = " " THEN SkipSpaces(s, i + 1) ELSE i

NoObject == [ok |-> FALSE, keys |-> <<>>]

RECURSIVE ParseMembers(_, _, _)
\* members of an object from index i on; keys: the keys read so far
ParseMembers(s, i, keys) ==
    LET k0 == SkipSpaces(s, i) IN
    IF ~(k0 <= Len(s) /\ s[k0] = QUOTE) THEN NoObject
    ELSE LET k1 == StringEnd(s, k0 + 1) IN
    IF k1 = 0 THEN NoObject
    ELSE LET c == SkipSpaces(s, k1 + 1) IN
    IF ~(c <= Len(s) /\ s[c] = ":") THEN NoObject
    ELSE LET v0 == SkipSpaces(s, c + 1) IN
    IF ~(v0 <= Len(s) /\ s[v0] = QUOTE) THEN NoObject
    ELSE LET v1 == StringEnd(s, v0 + 1) IN
    IF v1 = 0 THEN NoObject
    ELSE LET n == SkipSpaces(s, v1 + 1)
             ks == Append(keys, SubSeq(s, k0 + 1, k1 - 1))
         IN
         IF n > Len(s) THEN NoObject
         ELSE IF s[n] = "," THEN ParseMembers(s, n + 1, ks)
         ELSE IF s[n] = "}" /\ SkipSpaces(s, n + 1) = Len(s) + 1
              THEN [ok |-> TRUE, keys |-> ks]
         ELSE NoObject

\* a line parsed as a JSON object: whether it is one, and its keys in order
ParseObject(s) ==
    LET i == SkipSpaces(s, 1) IN
    IF i <= Len(s) /\ s[i] = "{" THEN ParseMembers(s, i + 1, <<>>) ELSE NoObject

KeySet(line) == {ParseObject(line).keys[k] : k \in 1..Len(ParseObject(line).keys)}

(***************************************************************************)
(* Rows the catalog query can return (SELECT distinct: no row twice).      *)
(***************************************************************************)
BookIds == {<<"7">>, <<"8">>}
Titles == {<<"a">>, <<"a", QUOTE, "b">>, <<"a", NEWLINE, "b">>}
Descriptions == {<<>>, <<"a", BACKSLASH, "n">>, <<NEWLINE, "}", NEWLINE>>}

CatalogRows == {<<i, t, d>> : i \in BookIds, t \in Titles, d \in Descriptions}

Distinct(seq) == \A a, b \in 1..Len(seq) : a # b => seq[a] # seq[b]

RowLists ==
    {rs \in UNION {[1..n -> CatalogRows] : n \in 0..MaxRows} : Distinct(rs)}

(***************************************************************************)
(* Data the job meets: command-line arguments, reading histories, and the  *)
(* tool calls a run can ask for.                                           *)
(***************************************************************************)
\* sys.argv[1]: absent, an integer literal, or a text int() rejects
ArgAbsent == [given |-> FALSE, numeric |-> FALSE, val |-> 0]
ArgText == [given |-> TRUE, numeric |-> FALSE, val |-> 0]
ArgInt(n) == [given |-> TRUE, numeric |-> TRUE, val |-> n]
ArgValues == {ArgAbsent, ArgText} \cup {ArgInt(n) : n \in -1..MaxArg}

\* whether int(sys.argv[1]) raises ValueError (run_task.py:13)
int_raises(a) == a.given /\ ~a.numeric

\* number_of_users as lines 12-15 set it
parse_number_of_users(a) == IF a.given THEN a.val ELSE 1

Book1 == [book_id |-> "b1", event_time |-> 2, title |-> "t1"]
Book2 == [book_id |-> "b2", event_time |-> 1, title |-> "t2"]
ReadBooks == {<<>>, <<Book1>>, <<Book1, Book2>>}

\* get_book_info: "" when the query finds no row (data_source.py:126-127)
get_book_info(book_id) == IF book_id = "b1" THEN "d1" ELSE ""

\* one OPENAI_USER_READING_HISTORY_RECORD block (run_task.py:26-29)
history_record(book) ==
    [event_time |-> book.event_time,
     book_title |-> book.title,
     book_desc |-> get_book_info(book.book_id)]

\* as if the block were put in front of the text
add_record_in_front(history, book) == <<history_record(book)>> \o history

\* prompt_reading_history += ... (run_task.py:26): the text is the sequence
\* of its blocks
add_record(history, book) == Append(history, history_record(book))

TextClean == <<"a">>
TextMarked == <<"a", " ">> \o Marker
TextNested == <<"[", "1", ":">> \o Marker \o <<"2">> \o SourceTail

EntryMarked == [book_id |-> "b1", book_title |-> TextClean, reason |-> TextMarked]
EntryNested == [book_id |-> "b2", book_title |-> TextNested, reason |-> TextClean]
EntryNoId == [book_title |-> TextMarked, reason |-> TextClean]
EntryNoReason == [book_id |-> "b3", book_title |-> TextClean]

NoArg == [has |-> FALSE]
Arg(v) == [has |-> TRUE, val |-> v]

ToolCall(id, hasFunction, name, summary, bks) ==
    [id |-> id, hasFunction |-> hasFunction, name |-> name,
     args |-> [recommendation_summary |-> summary, recommended_books |-> bks]]

CallFull == ToolCall("c1", TRUE, "recommend_books", Arg("s1"),
                     Arg(<<EntryMarked, EntryNested>>))
CallNoId == ToolCall("c2", TRUE, "recommend_books", Arg("s2"), Arg(<<EntryNoId>>))
CallNoArgs == ToolCall("c3", TRUE, "recommend_books", NoArg, NoArg)
CallNoReason == ToolCall("c4", TRUE, "recommend_books", Arg("s1"),
                         Arg(<<EntryMarked, EntryNoReason>>))
CallOther == ToolCall("c5", TRUE, "lookup", Arg("s2"), Arg(<<EntryMarked>>))
CallNoFunction == ToolCall("c6", FALSE, "", NoArg, NoArg)

\* the tool-call lists a requires_action status can carry
Batches ==
    {<<CallFull>>, <<CallNoId>>, <<CallNoArgs>>, <<CallNoReason>>,
     <<CallOther>>, <<CallOther, CallFull>>, <<CallNoId, CallFull>>,
     <<CallNoFunction, CallNoId>>}

NoCall == ToolCall("", FALSE, "", NoArg, NoArg)

Terminal == {"completed", "failed", "cancelled"}

(***************************************************************************)
(* Pieces of the run driver.                                               *)
(***************************************************************************)
\* as if "cancelled" were missing from the list of line 133 / 198
IsTerminalNoCancelled(status) == status \in {"completed", "failed"}

\* the loop exit test (openai_assistant.py:133, 198)
IsTerminal(status) == status \in {"completed", "failed", "cancelled"}

\* function_args.get("recommendation_summary", "") (line 146)
get_summary(call) ==
    IF call.args.recommendation_summary.has
    THEN call.args.recommendation_summary.val
    ELSE ""

\* function_args.get("recommended_books", []) (line 211)
get_books(call) ==
    IF call.args.recommended_books.has
    THEN call.args.recommended_books.val
    ELSE <<>>

\* book["reason"] or book["book_title"] raises KeyError (lines 215-216)
clean_raises(bks) ==
    \E i \in 1..Len(bks) : ~({"reason", "book_title"} \subseteq DOMAIN bks[i])

\* as if line 216 were missing
clean_book_reason_only(book) == [book EXCEPT !.reason = clean_text(@)]

\* the body of the loop of lines 214-216
clean_book(book) ==
    [book EXCEPT !.reason = clean_text(@), !.book_title = clean_text(@)]

clean_books(bks) == [i \in 1..Len(bks) |-> clean_book(bks[i])]

\* lines 165-169
analyze_return(status, summary) == IF status # "completed" THEN "" ELSE summary

\* as if the status test of line 235 were missing
search_return_unchecked(status, bks) == bks

\* lines 235-239
search_return(status, bks) == IF status # "completed" THEN <<>> ELSE bks

\* as if the printing indexed the first recommendation without a test
print_raises_on_empty(recs) ==
    \/ recs = <<>>
    \/ \E i \in 1..Len(recs) :
          ~({"book_id", "book_title", "reason"} \subseteq DOMAIN recs[i])

\* the f-string of run_task.py:39 raises KeyError
print_raises(recs) ==
    \E i \in 1..Len(recs) :
        ~({"book_id", "book_title", "reason"} \subseteq DOMAIN recs[i])

\* the statements of run_task.py inside try (lines 19-43)
TryBlock ==
    {"get_active_users", "for_user", "get_user_read_books", "get_book_info",
     "analyze", "print_analysis", "search", "print_recommendations",
     "limit_check"}

\* as if the loop were not wrapped in try/finally
HandlerOfNoFinally(step) == "exit"

\* where control goes when the statement at `step` raises (lines 18, 45)
HandlerOf(step) == IF step \in TryBlock THEN "finally" ELSE "exit"

Min(a, b) == IF a < b THEN a ELSE b

(***************************************************************************)
(* Initial states.                                                         *)
(***************************************************************************)
Resources == {"asst", "vs1", "file1"}

\* no submit_tool_outputs call was made
NoOutput == [has |-> FALSE]

\* the tool_outputs entry of lines 151-158 / 221-228, before json.dumps
ToolOutput(id, output) == [has |-> TRUE, tool_call_id |-> id, output |-> output]

\* a thread without a message
NoPrompt == [template |-> "none", reading_hisory |-> <<>>]

\* user_prompt (lines 111, 179): the template of the call with its
\* reading_hisory field filled
user_prompt(call, data) == [template |-> call, reading_hisory |-> data]

\* a thread at the service: the user it was created for, its message, the
\* runs created on it, and whether a retrieve has seen its run terminal
Conversation(user, prompt, messages, runs, done) ==
    [user |-> user, prompt |-> prompt, messages |-> messages, runs |-> runs,
     done |-> done]

RecentIdle == sessions = <<>> /\ LIMIT = 0 /\ recent = <<>> /\ rpc = "in"

PureIdle ==
    /\ text = <<>> /\ once = <<>> /\ twice = <<>> /\ cpc = "in"
    /\ rows = <<>> /\ document = <<>> /\ epc = "query"
    /\ RecentIdle

JobStart ==
    /\ pc = "fetch_books"
    /\ raisedAt = "none"
    /\ number_of_users = 1
    /\ users = <<>>
    /\ ui = 0
    /\ processed = 0
    /\ books = <<>>
    /\ bi = 0
    /\ prompt_reading_history = <<>>
    /\ book_creation_instruction = ""
    /\ recommendations = <<>>
    /\ conn = "none"
    /\ connections = 0
    /\ conversations = <<>>
    /\ vendor = [r \in Resources |-> "none"]
    /\ svcStatus = "none"
    /\ pending = <<>>
    /\ rounds = 0
    /\ teardownCalls = 0
    /\ tpc = "idle"
    /\ vector_store_ids = <<>>
    /\ si = 0
    /\ store_files = <<>>
    /\ fi = 0
    /\ attempted = {}
    /\ failedDeletes = {}
    /\ tdRaised = {}
    /\ dpc = "idle"
    /\ user_data = <<>>
    /\ thread = 0
    /\ tool_outputs = NoOutput
    /\ run_status = "none"
    /\ tool_calls = <<>>
    /\ ci = 0
    /\ recommendation_summary = ""
    /\ recommended_books = <<>>
    /\ lastHandled = NoCall
    /\ handledCount = 0
    /\ polls = 0

Init == PureIdle /\ JobStart /\ argv \in ArgValues

(***************************************************************************)
(* run_task.py, lines 6-16: export, provisioning, argument parsing.        *)
(* A statement that raises outside try ends the process at once.           *)
(***************************************************************************)
Raise(step) ==
    /\ pc' = HandlerOf(step)
    /\ raisedAt' = step

\* data_source.py:14-23: connect only when the module holds no handle
get_db_connection ==
    /\ conn' = "open"
    /\ connections' = IF conn = "none" THEN connections + 1 ELSE connections

\* snowflake.connector.connect raised (line 17): no handle is stored
ConnectRaised ==
    /\ conn = "none"
    /\ UNCHANGED <<conn, connections>>

\* a query function raised: at the connect, or with the handle at
\* cursor.execute or after it
QueryRaised == ConnectRaised \/ get_db_connection

\* line 6: ds.fetch_all_production_books()
FetchBooks ==
    /\ pc = "fetch_books"
    /\ \E ok \in BOOLEAN :
        IF ok THEN pc' = "create_store" /\ raisedAt' = raisedAt
                   /\ get_db_connection
        ELSE Raise("fetch_books") /\ QueryRaised
    /\ UNCHANGED <<pureVars, convVars, argv, number_of_users, users, ui, processed, books,
                   bi, prompt_reading_history, book_creation_instruction,
                   recommendations, svcVars, tdVars, drvVars>>

\* openai_assistant.py:36-37, client.vector_stores.create
CreateVectorStore ==
    /\ pc = "create_store"
    /\ \E ok \in BOOLEAN :
        IF ok
        THEN /\ vendor' = [vendor EXCEPT !["vs1"] = "live"]
             /\ pc' = "upload_file" /\ raisedAt' = raisedAt
        ELSE Raise("create_store") /\ vendor' = vendor
    /\ UNCHANGED <<pureVars, dbVars, convVars, argv, number_of_users, users, ui, processed, books,
                   bi, prompt_reading_history, book_creation_instruction,
                   recommendations, svcStatus, pending, rounds, tdVars, drvVars>>

\* openai_assistant.py:41-47, client.files.create and
\* client.vector_stores.files.create
UploadAndLinkFile ==
    /\ pc = "upload_file"
    /\ \E ok \in BOOLEAN :
        IF ok
        THEN /\ vendor' = [vendor EXCEPT !["file1"] = "live"]
             /\ pc' = "create_assistant" /\ raisedAt' = raisedAt
        ELSE Raise("upload_file") /\ vendor' = vendor
    /\ UNCHANGED <<pureVars, dbVars, convVars, argv, number_of_users, users, ui, processed, books,
                   bi, prompt_reading_history, book_creation_instruction,
                   recommendations, svcStatus, pending, rounds, tdVars, drvVars>>

\* openai_assistant.py:60-100, client.beta.assistants.create
CreateAssistant ==
    /\ pc = "create_assistant"
    /\ \E ok \in BOOLEAN :
        IF ok
        THEN /\ vendor' = [vendor EXCEPT !["asst"] = "live"]
             /\ pc' = "unlink" /\ raisedAt' = raisedAt
        ELSE Raise("create_assistant") /\ vendor' = vendor
    /\ UNCHANGED <<pureVars, dbVars, convVars, argv, number_of_users, users, ui, processed, books,
                   bi, prompt_reading_history, book_creation_instruction,
                   recommendations, svcStatus, pending, rounds, tdVars, drvVars>>

\* line 9: os.unlink(library_data_file)
Unlink ==
    /\ pc = "unlink"
    /\ \E ok \in BOOLEAN :
        IF ok THEN pc' = "parse_args" /\ raisedAt' = raisedAt
        ELSE Raise("unlink")
    /\ UNCHANGED <<pureVars, dbVars, convVars, argv, number_of_users, users, ui, processed, books,
                   bi, prompt_reading_history, book_creation_instruction,
                   recommendations, svcVars, tdVars, drvVars>>

\* lines 12-16
ParseArgs ==
    /\ pc = "parse_args"
    /\ IF int_raises(argv)
       THEN Raise("parse_args") /\ number_of_users' = number_of_users
       ELSE /\ number_of_users' = parse_number_of_users(argv)
            /\ pc' = "get_active_users" /\ raisedAt' = raisedAt
    /\ UNCHANGED <<pureVars, dbVars, convVars, argv, users, ui, processed, books,
                   bi, prompt_reading_history, book_creation_instruction,
                   recommendations, svcVars, tdVars, drvVars>>

(***************************************************************************)
(* run_task.py, lines 18-43: the per-user loop.                            *)
(***************************************************************************)
\* line 19: ds.get_active_users(14, 5)
GetActiveUsers ==
    /\ pc = "get_active_users"
    /\ \/ \E n \in 0..MaxUsers :
            /\ users' = [i \in 1..n |-> i]
            /\ pc' = "for_user" /\ raisedAt' = raisedAt
            /\ get_db_connection
       \/ Raise("get_active_users") /\ users' = users /\ QueryRaised
    /\ UNCHANGED <<pureVars, convVars, argv, number_of_users, ui, processed, books,
                   bi, prompt_reading_history, book_creation_instruction,
                   recommendations, svcVars, tdVars, drvVars>>

\* line 20: the for statement takes the next user, or the loop ends
ForUser ==
    /\ pc = "for_user"
    /\ IF ui < Len(users)
       THEN /\ ui' = ui + 1
            /\ processed' = processed + 1
            /\ pc' = "get_user_read_books"
       ELSE /\ pc' = "finally"
            /\ UNCHANGED <<ui, processed>>
    /\ UNCHANGED <<pureVars, dbVars, convVars, argv, raisedAt, number_of_users, users, books,
                   bi, prompt_reading_history, book_creation_instruction,
                   recommendations, svcVars, tdVars, drvVars>>

\* lines 21-23: ds.get_user_read_books(user_id)
GetUserReadBooks ==
    /\ pc = "get_user_read_books"
    /\ \/ \E bs \in ReadBooks :
            /\ books' = bs
            /\ bi' = 1
            /\ prompt_reading_history' = <<>>
            /\ pc' = IF bs = <<>> THEN "analyze" ELSE "get_book_info"
            /\ dpc' = IF bs = <<>> THEN "start" ELSE dpc
            /\ user_data' = <<>>
            /\ raisedAt' = raisedAt
            /\ get_db_connection
       \/ /\ Raise("get_user_read_books")
          /\ QueryRaised
          /\ UNCHANGED <<books, bi, prompt_reading_history, dpc, user_data>>
    /\ UNCHANGED <<pureVars, convVars, argv, number_of_users, users, ui, processed,
                   book_creation_instruction, recommendations, svcVars, tdVars,
                   thread, tool_outputs, run_status, tool_calls, ci,
                   recommendation_summary, recommended_books, lastHandled,
                   handledCount, polls>>

\* lines 24-29: one turn of the loop over books
GetBookInfo ==
    /\ pc = "get_book_info"
    /\ \/ /\ prompt_reading_history' =
                add_record(prompt_reading_history, books[bi])
          /\ bi' = bi + 1
          /\ pc' = IF bi = Len(books) THEN "analyze" ELSE "get_book_info"
          /\ dpc' = IF bi = Len(books) THEN "start" ELSE dpc
          /\ user_data' = IF bi = Len(books) THEN prompt_reading_history'
                          ELSE user_data
          /\ raisedAt' = raisedAt
          /\ get_db_connection
       \/ /\ Raise("get_book_info")
          /\ QueryRaised
          /\ UNCHANGED <<bi, prompt_reading_history, dpc, user_data>>
    /\ UNCHANGED <<pureVars, convVars, argv, number_of_users, users, ui, processed, books,
                   book_creation_instruction, recommendations, svcVars, tdVars,
                   thread, tool_outputs, run_status, tool_calls, ci,
                   recommendation_summary, recommended_books, lastHandled,
                   handledCount, polls>>

\* lines 33-34: print the analysis; line 36 then calls the search.  The
\* printed value is not read again.
PrintAnalysis ==
    /\ pc = "print_analysis"
    /\ pc' = "search"
    /\ dpc' = "start"
    /\ user_data' = prompt_reading_history
    /\ book_creation_instruction' = ""
    /\ UNCHANGED <<pureVars, dbVars, convVars, argv, raisedAt, number_of_users, users, ui,
                   processed, books, bi, prompt_reading_history,
                   recommendations, svcVars, tdVars,
                   thread, tool_outputs, run_status, tool_calls, ci,
                   recommendation_summary, recommended_books, lastHandled,
                   handledCount, polls>>

\* lines 37-39; the printed list is not read again
PrintRecommendations ==
    /\ pc = "print_recommendations"
    /\ IF print_raises(recommendations)
       THEN Raise("print_recommendations")
       ELSE pc' = "limit_check" /\ raisedAt' = raisedAt
    /\ recommendations' = <<>>
    /\ UNCHANGED <<pureVars, dbVars, convVars, argv, number_of_users, users, ui, processed, books,
                   bi, prompt_reading_history, book_creation_instruction,
                   svcVars, tdVars, drvVars>>

\* lines 41-43
LimitCheck ==
    /\ pc = "limit_check"
    /\ IF number_of_users = 1
       THEN pc' = "finally" /\ number_of_users' = number_of_users
       ELSE pc' = "for_user" /\ number_of_users' = number_of_users - 1
    /\ UNCHANGED <<pureVars, dbVars, convVars, argv, raisedAt, users, ui, processed, books,
                   bi, prompt_reading_history, book_creation_instruction,
                   recommendations, svcVars, tdVars, drvVars>>

(***************************************************************************)
(* The run driver: analyze_user_interest (pc = "analyze") and              *)
(* search_books_by_interest (pc = "search").                               *)
(***************************************************************************)
InDriver == pc \in {"analyze", "search"}

\* the function's frame is gone once it has returned or raised, and the job
\* keeps no handle on the run
FrameGone ==
    /\ dpc' = "idle"
    /\ user_data' = <<>>
    /\ thread' = 0
    /\ tool_outputs' = NoOutput
    /\ run_status' = "none"
    /\ tool_calls' = <<>>
    /\ ci' = 0
    /\ recommendation_summary' = ""
    /\ recommended_books' = <<>>
    /\ lastHandled' = NoCall
    /\ handledCount' = 0
    /\ polls' = 0
    /\ svcStatus' = "none"
    /\ pending' = <<>>
    /\ rounds' = 0

\* a raise inside the driver leaves the function and reaches the job
DriverRaise ==
    /\ Raise(pc)
    /\ FrameGone

\* as if the thread of the call before were used again
create_thread_once(convs, user) ==
    IF convs = <<>>
    THEN <<Conversation(user, NoPrompt, 0, 0, FALSE)>>
    ELSE convs

\* client.beta.threads.create() (line 108 / 175): a new, empty thread
create_thread(convs, user) ==
    Append(convs, Conversation(user, NoPrompt, 0, 0, FALSE))

\* line 108 / 175: thread = client.beta.threads.create()
DriverStart ==
    /\ InDriver /\ dpc = "start"
    /\ \/ /\ conversations' = create_thread(conversations, users[ui])
          /\ thread' = Len(conversations')
          /\ dpc' = "message"
          /\ UNCHANGED <<pc, raisedAt, svcStatus, pending, rounds, user_data,
                         tool_outputs, run_status, tool_calls, ci,
                         recommendation_summary, recommended_books, lastHandled,
                         handledCount, polls>>
       \/ DriverRaise /\ UNCHANGED conversations
    /\ UNCHANGED <<pureVars, dbVars, argv, number_of_users, users, ui, processed,
                   books, bi, prompt_reading_history, book_creation_instruction,
                   recommendations, vendor, tdVars>>

\* lines 111-118 / 179-185: the prompt is rendered and posted to the thread
DriverMessage ==
    /\ InDriver /\ dpc = "message"
    /\ \/ /\ conversations' =
                [conversations EXCEPT
                    ![thread].prompt = user_prompt(pc, user_data),
                    ![thread].messages = @ + 1]
          /\ dpc' = "run"
          /\ UNCHANGED <<pc, raisedAt, svcStatus, pending, rounds, user_data,
                         thread, tool_outputs, run_status, tool_calls, ci,
                         recommendation_summary, recommended_books, lastHandled,
                         handledCount, polls>>
       \/ DriverRaise /\ UNCHANGED conversations
    /\ UNCHANGED <<pureVars, dbVars, argv, number_of_users, users, ui, processed,
                   books, bi, prompt_reading_history, book_creation_instruction,
                   recommendations, vendor, tdVars>>

\* lines 120-127 / 186-192: the run is created on the thread
DriverRun ==
    /\ InDriver /\ dpc = "run"
    /\ \/ /\ conversations' = [conversations EXCEPT ![thread].runs = @ + 1]
          /\ svcStatus' = "queued"
          /\ pending' = <<>>
          /\ rounds' = 0
          /\ dpc' = "poll"
          /\ run_status' = "none"
          /\ tool_calls' = <<>>
          /\ ci' = 0
          /\ recommendation_summary' = ""
          /\ recommended_books' = <<>>
          /\ lastHandled' = NoCall
          /\ handledCount' = 0
          /\ polls' = 0
          /\ UNCHANGED <<pc, raisedAt, user_data, thread, tool_outputs>>
       \/ DriverRaise /\ UNCHANGED conversations
    /\ UNCHANGED <<pureVars, dbVars, argv, number_of_users, users, ui, processed,
                   books, bi, prompt_reading_history, book_creation_instruction,
                   recommendations, vendor, tdVars>>

\* lines 130-138 / 195-203: one retrieve, the exit test, and the read of the
\* pending tool calls; a non-terminal status without action sleeps and
\* polls again
Poll ==
    /\ InDriver /\ dpc = "poll"
    /\ \/ /\ run_status' = svcStatus
          /\ conversations' =
                [conversations EXCEPT ![thread].done = svcStatus \in Terminal]
          /\ polls' = Min(polls + 1, MaxPolls)
          /\ IF IsTerminal(svcStatus)
             THEN dpc' = "return" /\ UNCHANGED <<tool_calls, ci>>
             ELSE IF svcStatus = "requires_action"
             THEN dpc' = "handle" /\ tool_calls' = pending /\ ci' = 1
             ELSE dpc' = "poll" /\ UNCHANGED <<tool_calls, ci>>
          /\ tool_outputs' = NoOutput
          /\ UNCHANGED <<pc, raisedAt, svcStatus, pending, rounds, user_data,
                         thread, recommendation_summary, recommended_books,
                         lastHandled, handledCount>>
       \/ DriverRaise /\ UNCHANGED conversations
    /\ UNCHANGED <<pureVars, dbVars, argv, number_of_users, users, ui, processed,
                   books, bi, prompt_reading_history, book_creation_instruction,
                   recommendations, vendor, tdVars>>

\* the service takes the tool outputs of a run that waits for them
Submitted == IF svcStatus = "requires_action" THEN "queued" ELSE svcStatus

\* the turn for tool_calls[ci] is over; after the last one the loop sleeps
\* and polls again (line 163 / 233), and tool_calls is read anew before use
NextCall ==
    IF ci = Len(tool_calls)
    THEN dpc' = "poll" /\ tool_calls' = <<>> /\ ci' = 0
    ELSE dpc' = "handle" /\ tool_calls' = tool_calls /\ ci' = ci + 1

\* as if the name test of line 145 / 210 were missing
is_any_function(call) == call.hasFunction

\* lines 141-145 / 206-210: the tool call has a function named
\* recommend_books
is_recommend_books(call) == call.hasFunction /\ call.name = "recommend_books"

\* the dict of lines 154-156: the summary just read
analyze_output(summary) == [recommendation_summary |-> summary]

\* the dict of lines 224-226: the list just read and cleaned
search_output(bks) == [recommended_books |-> bks]

\* client.beta.threads.runs.submit_tool_outputs succeeded (line 148 / 218)
SubmitDone(call, output) ==
    /\ tool_outputs' = ToolOutput(call.id, output)
    /\ svcStatus' = Submitted
    /\ pending' = IF svcStatus = "requires_action" THEN <<>> ELSE pending
    /\ rounds' = rounds
    /\ NextCall
    /\ UNCHANGED <<pc, raisedAt, run_status, polls, user_data, thread>>

\* lines 140-162 / 205-232: one turn of the loop over tool_calls
HandleToolCall ==
    /\ InDriver /\ dpc = "handle"
    /\ LET call == tool_calls[ci] IN
       IF is_recommend_books(call)
       THEN IF pc = "analyze"
            THEN \/ /\ recommendation_summary' = get_summary(call)
                    /\ recommended_books' = recommended_books
                    /\ lastHandled' = call
                    /\ handledCount' = Min(handledCount + 1, 2)
                    /\ SubmitDone(call, analyze_output(get_summary(call)))
                 \/ DriverRaise
            ELSE IF clean_raises(get_books(call))
                 THEN DriverRaise
                 ELSE \/ /\ recommended_books' = clean_books(get_books(call))
                         /\ recommendation_summary' = recommendation_summary
                         /\ lastHandled' = call
                         /\ handledCount' = Min(handledCount + 1, 2)
                         /\ SubmitDone(call,
                                       search_output(clean_books(get_books(call))))
                      \/ DriverRaise
       ELSE /\ NextCall
            /\ tool_outputs' = NoOutput
            /\ UNCHANGED <<pc, raisedAt, svcStatus, pending, rounds, run_status,
                           polls, recommendation_summary, recommended_books,
                           lastHandled, handledCount, user_data, thread>>
    /\ UNCHANGED <<pureVars, dbVars, convVars, argv, number_of_users, users, ui,
                   processed, books, bi, prompt_reading_history,
                   book_creation_instruction, recommendations, vendor, tdVars>>

\* lines 165-169 / 235-239
DriverReturn ==
    /\ InDriver /\ dpc = "return"
    /\ IF pc = "analyze"
       THEN /\ book_creation_instruction' =
                  analyze_return(run_status, recommendation_summary)
            /\ recommendations' = recommendations
            /\ pc' = "print_analysis"
       ELSE /\ recommendations' = search_return(run_status, recommended_books)
            /\ book_creation_instruction' = book_creation_instruction
            /\ pc' = "print_recommendations"
    /\ FrameGone
    /\ UNCHANGED <<pureVars, dbVars, convVars, argv, raisedAt, number_of_users, users, ui,
                   processed, books, bi, prompt_reading_history, vendor, tdVars>>

(***************************************************************************)
(* The service moves the run in flight through its statuses.               *)
(***************************************************************************)
RunInFlight == InDriver /\ dpc \in {"poll", "handle"}

SvcProgress ==
    /\ RunInFlight /\ svcStatus = "queued"
    /\ svcStatus' = "in_progress"
    /\ UNCHANGED <<pureVars, dbVars, convVars, jobVars, vendor, pending, rounds, tdVars, drvVars>>

SvcRequireAction ==
    /\ RunInFlight /\ svcStatus = "in_progress" /\ rounds < MaxRounds
    /\ svcStatus' = "requires_action"
    /\ rounds' = rounds + 1
    /\ \E b \in Batches : pending' = b
    /\ UNCHANGED <<pureVars, dbVars, convVars, jobVars, vendor, tdVars, drvVars>>

SvcFinish ==
    /\ RunInFlight /\ svcStatus \in {"queued", "in_progress", "requires_action"}
    /\ \E s \in Terminal : svcStatus' = s
    /\ pending' = <<>>
    /\ UNCHANGED <<pureVars, dbVars, convVars, jobVars, vendor, rounds, tdVars, drvVars>>

(***************************************************************************)
(* run_task.py, lines 45-48, and delete_assistant.  Every vendor call may  *)
(* raise; the two except clauses (lines 274, 277) decide where a raise     *)
(* leads.                                                                  *)
(***************************************************************************)
\* vector_store_ids of the assistant (line 96, read back at line 251)
BoundStores == <<"vs1">>

\* the files client.vector_stores.files.list reports for a store (line 263)
FilesOf(store) ==
    IF store = "vs1" /\ vendor["file1"] = "live" THEN <<"file1">> ELSE <<>>

\* the except clause of line 274 ends the turn for this store
AfterStore == IF si = Len(vector_store_ids) THEN "done" ELSE "list_files"

\* as if a failed deletion of the assistant were logged and the stores
\* deleted all the same
AfterAssistantDeleteLogged == "list_files"

\* where a failed client.beta.assistants.delete leads (except of line 277)
AfterAssistantDeleteFailed == "done"

\* where a failed client.vector_stores.files.delete leads (except of line 274)
AfterFileDeleteFailed == AfterStore

\* as if the try of line 246 and its except of line 277 were missing
CatchOfNoOuter(step) ==
    IF step \in {"list_files", "delete_file", "delete_store"}
    THEN "inner" ELSE "none"

\* the except clause that catches a raise of a statement of delete_assistant:
\* the one of line 274 inside the loop over the stores, else that of line 277
CatchOf(step) ==
    IF step \in {"list_files", "delete_file", "delete_store"}
    THEN "inner" ELSE "outer"

\* as if the stores were deleted before the assistant
AfterRetrieveStoresFirst == "list_files"

\* the statement after the lookup of lines 248-253: line 256
AfterRetrieve == "delete_assistant"

\* the part of the job's state delete_assistant cannot touch
jobData ==
    <<argv, number_of_users, users, ui, processed, books, bi,
      prompt_reading_history, book_creation_instruction, recommendations>>

\* a statement of delete_assistant raised: the except clause that catches it
\* sends control to `next`; a raise nothing caught would leave the finally
\* block and replace the exception of the try block
TdRaise(step, next) ==
    /\ tdRaised' = tdRaised \cup {step}
    /\ IF CatchOf(step) = "none"
       THEN pc' = "exit" /\ raisedAt' = "delete_assistant" /\ tpc' = "done"
       ELSE tpc' = next /\ UNCHANGED <<pc, raisedAt>>

\* line 48: oa.delete_assistant(assistant_id)
TeardownStart ==
    /\ pc = "finally" /\ tpc = "idle"
    /\ teardownCalls' = teardownCalls + 1
    /\ tpc' = "retrieve"
    /\ UNCHANGED <<pureVars, dbVars, convVars, jobVars, svcVars,
                   vector_store_ids, si, store_files, fi, attempted,
                   failedDeletes, tdRaised, drvVars>>

\* lines 248-253
TdRetrieve ==
    /\ pc = "finally" /\ tpc = "retrieve"
    /\ \E ok \in BOOLEAN :
        IF ok
        THEN /\ vector_store_ids' = BoundStores
             /\ si' = 1
             /\ tpc' = AfterRetrieve
             /\ UNCHANGED <<pc, raisedAt, tdRaised>>
        ELSE /\ TdRaise("retrieve", "done")
             /\ UNCHANGED <<vector_store_ids, si>>
    /\ UNCHANGED <<pureVars, dbVars, convVars, jobData, svcVars, teardownCalls,
                   store_files, fi, attempted, failedDeletes, drvVars>>

\* lines 256-257, then the for statement of line 260
TdDeleteAssistant ==
    /\ pc = "finally" /\ tpc = "delete_assistant"
    /\ attempted' = attempted \cup {"asst"}
    /\ \E ok \in BOOLEAN :
        IF ok
        THEN /\ vendor' = [vendor EXCEPT !["asst"] = "deleted"]
             /\ tpc' = IF vector_store_ids = <<>> THEN "done" ELSE "list_files"
             /\ UNCHANGED <<pc, raisedAt, tdRaised, failedDeletes>>
        ELSE /\ failedDeletes' = failedDeletes \cup {"asst"}
             /\ TdRaise("delete_assistant", AfterAssistantDeleteFailed)
             /\ vendor' = vendor
    /\ UNCHANGED <<pureVars, dbVars, convVars, jobData, svcStatus, pending,
                   rounds, teardownCalls, vector_store_ids, si, store_files, fi,
                   drvVars>>

\* line 263, then the for statement of line 266
TdListFiles ==
    /\ pc = "finally" /\ tpc = "list_files"
    /\ \E ok \in BOOLEAN :
        IF ok
        THEN /\ store_files' = FilesOf(vector_store_ids[si])
             /\ fi' = 1
             /\ tpc' = IF FilesOf(vector_store_ids[si]) = <<>>
                       THEN "delete_store" ELSE "delete_file"
             /\ UNCHANGED <<pc, raisedAt, tdRaised, si>>
        ELSE /\ TdRaise("list_files", AfterStore)
             /\ si' = si + 1
             /\ UNCHANGED <<store_files, fi>>
    /\ UNCHANGED <<pureVars, dbVars, convVars, jobData, svcVars, teardownCalls,
                   vector_store_ids, attempted, failedDeletes, drvVars>>

\* lines 267-268
TdDeleteFile ==
    /\ pc = "finally" /\ tpc = "delete_file"
    /\ attempted' = attempted \cup {store_files[fi]}
    /\ \E ok \in BOOLEAN :
        IF ok
        THEN /\ vendor' = [vendor EXCEPT ![store_files[fi]] = "deleted"]
             /\ fi' = fi + 1
             /\ tpc' = IF fi = Len(store_files) THEN "delete_store" ELSE "delete_file"
             /\ UNCHANGED <<pc, raisedAt, tdRaised, si, failedDeletes>>
        ELSE /\ failedDeletes' = failedDeletes \cup {store_files[fi]}
             /\ TdRaise("delete_file", AfterFileDeleteFailed)
             /\ si' = si + 1
             /\ UNCHANGED <<vendor, fi>>
    /\ UNCHANGED <<pureVars, dbVars, convVars, jobData, svcStatus, pending,
                   rounds, teardownCalls, vector_store_ids, store_files, drvVars>>

\* lines 271-275
TdDeleteStore ==
    /\ pc = "finally" /\ tpc = "delete_store"
    /\ attempted' = attempted \cup {vector_store_ids[si]}
    /\ \E ok \in BOOLEAN :
        IF ok
        THEN /\ vendor' = [vendor EXCEPT ![vector_store_ids[si]] = "deleted"]
             /\ tpc' = AfterStore
             /\ UNCHANGED <<pc, raisedAt, tdRaised, failedDeletes>>
        ELSE /\ failedDeletes' = failedDeletes \cup {vector_store_ids[si]}
             /\ TdRaise("delete_store", AfterStore)
             /\ vendor' = vendor
    /\ si' = si + 1
    /\ UNCHANGED <<pureVars, dbVars, convVars, jobData, svcStatus, pending,
                   rounds, teardownCalls, vector_store_ids, store_files, fi,
                   drvVars>>

\* delete_assistant has returned: the finally block ends, and the process
\* exits (an exception raised in the try block propagates)
JobExit ==
    /\ pc = "finally" /\ tpc = "done"
    /\ pc' = "exit"
    /\ UNCHANGED <<pureVars, dbVars, convVars, argv, raisedAt, number_of_users, users, ui,
                   processed, books, bi, prompt_reading_history,
                   book_creation_instruction, recommendations, svcVars, tdVars,
                   drvVars>>

Next ==
    \/ FetchBooks \/ CreateVectorStore \/ UploadAndLinkFile \/ CreateAssistant
    \/ Unlink \/ ParseArgs
    \/ GetActiveUsers \/ ForUser \/ GetUserReadBooks \/ GetBookInfo
    \/ PrintAnalysis \/ PrintRecommendations \/ LimitCheck
    \/ DriverStart \/ DriverMessage \/ DriverRun
    \/ Poll \/ HandleToolCall \/ DriverReturn
    \/ SvcProgress \/ SvcRequireAction \/ SvcFinish
    \/ TeardownStart \/ TdRetrieve \/ TdDeleteAssistant \/ TdListFiles
    \/ TdDeleteFile \/ TdDeleteStore \/ JobExit

Spec == Init /\ [][Next]_vars

(***************************************************************************)
(* One call of the run driver, from the state in which the job makes it    *)
(* for its first user.  The job is a sequential program that keeps         *)
(* running: a poll or a return the driver is at is eventually run.  A     *)
(* poll that sees the status it saw before changes nothing, so polling for *)
(* ever shows as a behaviour that stops changing.                          *)
(***************************************************************************)
InitRun ==
    /\ PureIdle
    /\ argv = ArgAbsent
    /\ pc \in {"analyze", "search"}
    /\ dpc = "start"
    /\ raisedAt = "none"
    /\ number_of_users = 1
    /\ users = <<1>>
    /\ ui = 1
    /\ processed = 1
    /\ books = <<Book1>>
    /\ bi = 2
    /\ prompt_reading_history = <<history_record(Book1)>>
    /\ book_creation_instruction = ""
    /\ recommendations = <<>>
    /\ conn = "open"
    /\ connections = 1
    /\ conversations =
          IF pc = "analyze" THEN <<>>
          ELSE <<Conversation(1, user_prompt("analyze", prompt_reading_history),
                              1, 1, TRUE)>>
    /\ user_data = prompt_reading_history
    /\ thread = 0
    /\ tool_outputs = NoOutput
    /\ tdRaised = {}
    /\ vendor = [r \in Resources |-> "live"]
    /\ svcStatus = "none"
    /\ pending = <<>>
    /\ rounds = 0
    /\ teardownCalls = 0
    /\ tpc = "idle"
    /\ vector_store_ids = <<>>
    /\ si = 0
    /\ store_files = <<>>
    /\ fi = 0
    /\ attempted = {}
    /\ failedDeletes = {}
    /\ run_status = "none"
    /\ tool_calls = <<>>
    /\ ci = 0
    /\ recommendation_summary = ""
    /\ recommended_books = <<>>
    /\ lastHandled = NoCall
    /\ handledCount = 0
    /\ polls = 0

NextRun ==
    \/ DriverStart \/ DriverMessage \/ DriverRun \/ Poll \/ HandleToolCall \/ DriverReturn
    \/ SvcProgress \/ SvcRequireAction \/ SvcFinish

\* a poll that does not raise
PollOnce == Poll /\ raisedAt' = raisedAt

FairRunSpec ==
    /\ InitRun /\ [][NextRun]_vars
    /\ WF_vars(PollOnce)
    /\ WF_vars(DriverReturn)

(***************************************************************************)
(* clean_text applied once and twice to a text.                            *)
(***************************************************************************)
InitClean ==
    /\ text \in Texts
    /\ once = <<>> /\ twice = <<>> /\ cpc = "in"
    /\ rows = <<>> /\ document = <<>> /\ epc = "query"
    /\ RecentIdle
    /\ JobStart /\ argv = ArgAbsent

CleanOnce ==
    /\ cpc = "in"
    /\ once' = clean_text(text)
    /\ cpc' = "once"
    /\ UNCHANGED <<text, twice, rows, document, epc, recentVars, dbVars,
                   convVars, jobVars, svcVars, tdVars, drvVars>>

CleanTwice ==
    /\ cpc = "once"
    /\ twice' = clean_text(once)
    /\ cpc' = "twice"
    /\ UNCHANGED <<text, once, rows, document, epc, recentVars, dbVars,
                   convVars, jobVars, svcVars, tdVars, drvVars>>

NextClean == CleanOnce \/ CleanTwice

SpecClean == InitClean /\ [][NextClean]_vars

(***************************************************************************)
(* fetch_all_production_books on the rows of one query.                    *)
(***************************************************************************)
InitExport ==
    /\ rows \in RowLists
    /\ document = <<>> /\ epc = "query"
    /\ text = <<>> /\ once = <<>> /\ twice = <<>> /\ cpc = "in"
    /\ RecentIdle
    /\ JobStart /\ argv = ArgAbsent

\* data_source.py:146-162: the rows are serialised and written to the file
WriteLibraryData ==
    /\ epc = "query"
    /\ document' = library_data(rows)
    /\ epc' = "written"
    /\ UNCHANGED <<text, once, twice, cpc, rows, recentVars, dbVars, convVars,
                   jobVars, svcVars, tdVars, drvVars>>

NextExport == WriteLibraryData

SpecExport == InitExport /\ [][NextExport]_vars

(***************************************************************************)
(* get_user_read_books on the reading sessions of one user.  A row of      *)
(* sessions is a row of STUDENTS_READING_SESSIONS of the user joined to its *)
(* BOOKS_LIST row.                                                          *)
(***************************************************************************)
SessionBooks == {"b1", "b2", "b3"}
EventTimes == {1, 2}

\* b.TITLE of the joined BOOKS_LIST row
TitleOf(book_id) ==
    IF book_id = "b1" THEN "t1" ELSE IF book_id = "b2" THEN "t2" ELSE "t3"

SessionRows == [book_id : SessionBooks, event_time : EventTimes]

SessionLists == UNION {[1..n -> SessionRows] : n \in 0..MaxSessions}

\* as if the window ordered by EVENT_TIME ascending
rn_ascending(rs, i) ==
    1 + Cardinality({j \in 1..Len(rs) :
            /\ rs[j].book_id = rs[i].book_id
            /\ \/ rs[j].event_time < rs[i].event_time
               \/ rs[j].event_time = rs[i].event_time /\ j < i})

\* ROW_NUMBER() OVER (PARTITION BY b.PERMANENT_ID ORDER BY s.EVENT_TIME DESC)
\* (line 73).  Rows of one book with the same EVENT_TIME carry the same
\* values in every column that is read, so which of them comes first does
\* not show in the result; the earlier row is taken.
rn(rs, i) ==
    1 + Cardinality({j \in 1..Len(rs) :
            /\ rs[j].book_id = rs[i].book_id
            /\ \/ rs[j].event_time > rs[i].event_time
               \/ rs[j].event_time = rs[i].event_time /\ j < i})

\* SELECT * FROM RankedBooks WHERE rn = 1 (line 83)
RankedFirst(rs) == {i \in 1..Len(rs) : rn(rs, i) = 1}

\* ORDER BY EVENT_TIME DESC (line 84): every order of the kept rows with
\* no later row more recent; rows with equal EVENT_TIME come in any order
OrderedByEventTime(rs) ==
    {o \in [1..Cardinality(RankedFirst(rs)) -> RankedFirst(rs)] :
        /\ \A a, b \in DOMAIN o : a # b => o[a] # o[b]
        /\ \A a, b \in DOMAIN o :
              a < b => rs[o[a]].event_time >= rs[o[b]].event_time}

\* LIMIT {LIMIT} (line 85)
limit_rows(o, n) == [k \in 1..Min(Len(o), n) |-> o[k]]

\* the dictionary of lines 93-104, with the fields the job reads
book_of_row(row) ==
    [event_time |-> row.event_time,
     title |-> TitleOf(row.book_id),
     book_id |-> row.book_id]

InitRecent ==
    /\ sessions \in SessionLists
    /\ LIMIT \in 0..MaxLimit
    /\ recent = <<>> /\ rpc = "in"
    /\ text = <<>> /\ once = <<>> /\ twice = <<>> /\ cpc = "in"
    /\ rows = <<>> /\ document = <<>> /\ epc = "query"
    /\ JobStart /\ argv = ArgAbsent

\* data_source.py:56-106: the query runs and its rows become dictionaries
get_user_read_books ==
    /\ rpc = "in"
    /\ \E o \in OrderedByEventTime(sessions) :
          recent' = [k \in DOMAIN limit_rows(o, LIMIT) |->
                        book_of_row(sessions[limit_rows(o, LIMIT)[k]])]
    /\ rpc' = "returned"
    /\ UNCHANGED <<text, once, twice, cpc, rows, document, epc, sessions, LIMIT,
                   dbVars, convVars, jobVars, svcVars, tdVars, drvVars>>

NextRecent == get_user_read_books

SpecRecent == InitRecent /\ [][NextRecent]_vars

(***************************************************************************)
(* Properties.                                                             *)
(***************************************************************************)
Failed == {"failed", "cancelled"}

\* C1: delete_assistant is called exactly once per job run whose per-user
\* processing was entered: never twice, and once the process has exited
\* after the loop ended normally or a statement of the try block raised,
\* exactly once.
C1_TeardownExactlyOnce ==
    /\ teardownCalls <= 1
    /\ (pc = "exit" /\ raisedAt \in TryBlock \cup {"none"}) => teardownCalls = 1

\* a run whose second user's description query raised has exited after one
\* teardown
C1_Witness ==
    /\ pc = "exit"
    /\ raisedAt = "get_book_info"
    /\ processed = 2
    /\ teardownCalls = 1

\* C2: on every exit of the job reached after the assistant was created,
\* teardown of the assistant was attempted before the process exited.
C2_AssistantNeverOutlivesJob ==
    (pc = "exit" /\ vendor["asst"] # "none") => teardownCalls >= 1

\* C3: when the terminal status a run is seen in is failed or cancelled,
\* analyze_user_interest returns "" and search_books_by_interest returns [],
\* whatever a handled recommend_books call captured, and neither raises.
C3_FailedRunReturnsEmpty ==
    [][/\ (pc = "analyze" /\ dpc = "return" /\ run_status \in Failed)
            => (pc' = "print_analysis" /\ book_creation_instruction' = "")
       /\ (pc = "search" /\ dpc = "return" /\ run_status \in Failed)
            => (pc' = "print_recommendations" /\ recommendations' = <<>>)
       /\ (InDriver /\ run_status \in Failed) => raisedAt' = "none"]_vars

\* a search run seen cancelled after a recommend_books call left a list
C3_Witness ==
    /\ pc = "search" /\ dpc = "return"
    /\ run_status = "cancelled"
    /\ handledCount >= 1
    /\ recommended_books # <<>>

\* C4: a failed or cancelled run does not abort the batch: after such an
\* analysis run the recommendation run of the same user is started; after
\* such a recommendation run the empty list is printed without a raise, the
\* limit test follows, and from it the loop goes to the next user or ends
\* through the normal path into the finally block.
C4_FailedRunContinuesBatch ==
    [][/\ (pc = "analyze" /\ dpc = "return" /\ run_status \in Failed)
            => (pc' = "print_analysis" /\ raisedAt' = "none")
       /\ pc = "print_analysis"
            => (pc' = "search" /\ dpc' = "start" /\ raisedAt' = "none")
       /\ (pc = "search" /\ dpc = "return" /\ run_status \in Failed)
            => (pc' = "print_recommendations" /\ recommendations' = <<>>)
       /\ (pc = "print_recommendations" /\ recommendations = <<>>)
            => (pc' = "limit_check" /\ raisedAt' = "none")
       /\ (pc = "limit_check" /\ number_of_users # 1)
            => (pc' = "for_user" /\ raisedAt' = "none")
       /\ (pc = "limit_check" /\ number_of_users = 1)
            => (pc' = "finally" /\ raisedAt' = "none")
       /\ (pc = "for_user" /\ ui < Len(users))
            => (pc' = "get_user_read_books" /\ ui' = ui + 1)
       /\ (pc = "for_user" /\ ui >= Len(users))
            => (pc' = "finally" /\ raisedAt' = "none")]_vars

\* the first user's recommendation run is seen failed while a second user
\* is due and the limit is not reached
C4_Witness ==
    /\ pc = "search" /\ dpc = "return"
    /\ run_status = "failed"
    /\ ui = 1 /\ Len(users) = 2
    /\ number_of_users = 2

\* the limit the command line asks for: N, or 1 without an argument
UserLimit == IF argv.given THEN argv.val ELSE 1

\* C5: the loop body is entered for at most N users (for none when N is
\* not positive).
C5_AtMostNUsers ==
    pc \notin {"fetch_books", "create_store", "upload_file", "create_assistant",
               "unlink", "parse_args"}
        => processed <= (IF UserLimit > 0 THEN UserLimit ELSE 0)

\* what the run should return once it is seen completed
ExpectedSummary ==
    IF handledCount = 0 \/ ~lastHandled.args.recommendation_summary.has
    THEN ""
    ELSE lastHandled.args.recommendation_summary.val

ExpectedBooksOf(raw, got) ==
    /\ Len(got) = Len(raw)
    /\ \A i \in 1..Len(raw) :
        /\ DOMAIN got[i] = DOMAIN raw[i]
        /\ got[i].reason = clean_text(raw[i].reason)
        /\ got[i].book_title = clean_text(raw[i].book_title)
        /\ ("book_id" \in DOMAIN raw[i]) => got[i].book_id = raw[i].book_id

ExpectedBooks(got) ==
    IF handledCount = 0 \/ ~lastHandled.args.recommended_books.has
    THEN got = <<>>
    ELSE ExpectedBooksOf(lastHandled.args.recommended_books.val, got)

\* C6: the driver returns only when the last poll has seen a terminal
\* status; however many polls were made, another poll is possible while
\* none has seen a terminal status; once a poll has seen one the driver
\* returns; and when the driver is about to poll a run for which the
\* service holds a terminal status, it leaves its loop (it returns, unless
\* the poll raises).
C6_ReturnsOnlyOnTerminal ==
    /\ [][(InDriver /\ pc' \in {"print_analysis", "print_recommendations"})
            => run_status \in Terminal]_vars
    /\ [](InDriver /\ run_status \notin Terminal => dpc # "return")
    /\ [](InDriver /\ dpc = "poll" => ENABLED PollOnce)
    /\ (InDriver /\ run_status \in Terminal)
          ~> (pc \in {"print_analysis", "print_recommendations"})
    /\ (InDriver /\ dpc = "poll" /\ svcStatus \in Terminal) ~> ~InDriver

\* a run seen cancelled only after the poll count has passed its cap and a
\* tool call was handled
C6_Witness ==
    /\ InDriver /\ dpc = "return"
    /\ polls = MaxPolls
    /\ rounds >= 1
    /\ run_status = "cancelled"

C8_CleanupContinuesPastFailure ==
    (tpc = "done" /\ failedDeletes # {}) => attempted = Resources

\* C9: clean_text(clean_text(t)) = clean_text(t).
C9_CleanTextIdempotent == cpc = "twice" => twice = once

\* the keys the catalog document is said to carry
KeyTitle == <<"t", "i", "t", "l", "e">>
KeyDescription == <<"d", "e", "s", "c", "r", "i", "p", "t", "i", "o", "n">>

ExportHasKeys(keys) ==
    /\ Len(Lines(document)) = Len(rows)
    /\ \A i \in 1..Len(Lines(document)) :
        /\ ParseObject(Lines(document)[i]).ok
        /\ Len(ParseObject(Lines(document)[i]).keys) = Cardinality(keys)
        /\ KeySet(Lines(document)[i]) = keys

\* C10 as stated: one line per row, each a JSON object with exactly the
\* keys book_id, title, description.
C10_KeysAsStated ==
    epc = "written" => ExportHasKeys({KeyBookId, KeyTitle, KeyDescription})

\* C10 as amended: one line per row, each a JSON object with exactly the
\* keys book_id, book_title, book_Description.
C10_KeysAsWritten ==
    epc = "written"
        => ExportHasKeys({KeyBookId, KeyBookTitle, KeyBookDescription})

\* two rows were exported, one with a line break in its title and one with
\* line breaks and a brace in its description
C10_Witness ==
    /\ epc = "written"
    /\ Len(rows) = 2
    /\ rows[1][2] = <<"a", NEWLINE, "b">>
    /\ rows[2][3] = <<NEWLINE, "}", NEWLINE>>

\* the reading-history text with one block per book of bks, in their order
HistoryOf(bks) == [i \in 1..Len(bks) |-> history_record(bks[i])]

\* C11: for a user whose recent-book query returned k books, the
\* reading-history text each run driver is called with, and the text in the
\* message of each of the user's runs, is the k book-record blocks, one per
\* book in the order the query returned them; the analysis run and the
\* recommendation run get the same text.
C11_HistoryHasOneBlockPerBook ==
    /\ InDriver => (user_data = HistoryOf(books) /\ Len(user_data) = Len(books))
    /\ \A i \in 1..Len(conversations) :
          (conversations[i].messages > 0 /\ conversations[i].user = users[ui])
              => conversations[i].prompt.reading_hisory = HistoryOf(books)
    /\ \A i, j \in 1..Len(conversations) :
          (/\ conversations[i].user = conversations[j].user
           /\ conversations[i].messages > 0
           /\ conversations[j].messages > 0)
              => conversations[i].prompt.reading_hisory
                   = conversations[j].prompt.reading_hisory

\* the recommendation run of a user with two books is being polled; its
\* message and the message of the analysis run carry the two blocks
C11_Witness ==
    /\ pc = "search" /\ dpc = "poll"
    /\ books = <<Book1, Book2>>
    /\ Len(conversations) = 2
    /\ conversations[1].prompt = user_prompt("analyze", HistoryOf(books))
    /\ conversations[2].prompt = user_prompt("search", HistoryOf(books))

\* the most recent EVENT_TIME among the user's sessions of a book
LatestSession(book_id) ==
    CHOOSE t \in EventTimes :
        /\ \E i \in 1..Len(sessions) :
              sessions[i].book_id = book_id /\ sessions[i].event_time = t
        /\ \A i \in 1..Len(sessions) :
              sessions[i].book_id = book_id => sessions[i].event_time <= t

\* C12: the list get_user_read_books returns has at most LIMIT entries, no
\* two of them with the same book identifier; every entry is a book the
\* user has a session of, with the time of the most recent of them; and no
\* entry is more recent than an entry before it.
C12_RecentBooksDistinctAndCapped ==
    rpc = "returned" =>
        /\ Len(recent) <= LIMIT
        /\ \A a, b \in 1..Len(recent) :
              a # b => recent[a].book_id # recent[b].book_id
        /\ \A a \in 1..Len(recent) :
              /\ \E i \in 1..Len(sessions) :
                    sessions[i].book_id = recent[a].book_id
              /\ recent[a].event_time = LatestSession(recent[a].book_id)
        /\ \A a, b \in 1..Len(recent) :
              a < b => recent[a].event_time >= recent[b].event_time

\* two sessions of one book and a session of another book at the time of
\* the later one: both books are returned once, the other book first
C12_Witness ==
    /\ rpc = "returned"
    /\ LIMIT = 2
    /\ sessions = <<[book_id |-> "b1", event_time |-> 1],
                    [book_id |-> "b1", event_time |-> 2],
                    [book_id |-> "b2", event_time |-> 2]>>
    /\ Len(recent) = 2
    /\ recent[1].book_id = "b2"
    /\ recent[2] = [event_time |-> 2, title |-> "t1", book_id |-> "b1"]

\* the tool call the driver is about to handle
CurrentCall == tool_calls[ci]

AllDeleted == \A r \in Resources : vendor[r] = "deleted"

\* C14 as stated: the file of the bound index is deleted before the index,
\* the assistant only after the index; and delete_assistant, when none of
\* its deletion calls failed, leaves the assistant, the index and the file
\* deleted.
C14_FilesThenIndexThenAssistant ==
    /\ vendor["vs1"] = "deleted" => vendor["file1"] = "deleted"
    /\ vendor["asst"] = "deleted" => vendor["vs1"] = "deleted"
    /\ (tpc = "done" /\ failedDeletes = {}) => AllDeleted

\* C14 as amended: the assistant is deleted first, then the file of the
\* bound index, then the index; and delete_assistant, when none of its
\* vendor calls failed, leaves the assistant, the index and the file
\* deleted.
C14_AssistantThenFilesThenIndex ==
    /\ vendor["file1"] = "deleted" => vendor["asst"] = "deleted"
    /\ vendor["vs1"] = "deleted"
          => (vendor["file1"] = "deleted" /\ vendor["asst"] = "deleted")
    /\ (tpc = "done" /\ tdRaised = {}) => AllDeleted

\* the job has exited after a teardown in which no call failed
C14_Witness ==
    /\ pc = "exit"
    /\ teardownCalls = 1
    /\ tdRaised = {}
    /\ attempted = Resources
    /\ AllDeleted

\* the threads created for a user, in the order of their creation
ThreadsOf(user) ==
    {i \in 1..Len(conversations) : conversations[i].user = user}

\* the users whose turn of the loop of run_task.py:20-43 has run to its end
Completed ==
    {users[k] : k \in 1..(ui - 1)}
        \cup (IF ui >= 1 /\ (\/ pc \in {"limit_check", "for_user"}
                             \/ pc \in {"finally", "exit"} /\ raisedAt = "none")
              THEN {users[ui]} ELSE {})

\* runs the job created and has not seen in a terminal status
InFlight ==
    {i \in 1..Len(conversations) :
        conversations[i].runs > 0 /\ ~conversations[i].done}

\* C15: a thread never gets a second message or a second run and belongs
\* to one user; a user whose turn has ended has exactly two threads, the
\* first with the analysis prompt and the second with the recommendation
\* prompt, each with one message and one run seen terminal; at most one
\* run is in flight; and a run is created only when every run created
\* before it has been seen in a terminal status.
C15_TwoConversationsOneRunInFlight ==
    /\ [](/\ \A i \in 1..Len(conversations) :
              /\ conversations[i].messages <= 1
              /\ conversations[i].runs <= conversations[i].messages
          /\ \A u \in Completed :
              /\ Cardinality(ThreadsOf(u)) = 2
              /\ \E i, j \in ThreadsOf(u) :
                    /\ i < j
                    /\ conversations[i].prompt.template = "analyze"
                    /\ conversations[j].prompt.template = "search"
              /\ \A i \in ThreadsOf(u) :
                    /\ conversations[i].messages = 1
                    /\ conversations[i].runs = 1
                    /\ conversations[i].done
          /\ Cardinality(InFlight) <= 1)
    /\ [][\A i \in 1..Len(conversations') :
            (i <= Len(conversations)
             /\ conversations'[i].runs > conversations[i].runs)
                => InFlight = {}]_vars

\* the turn of the second user has ended: four threads, two per user
C15_Witness ==
    /\ pc = "limit_check"
    /\ ui = 2
    /\ Completed = {1, 2}
    /\ Len(conversations) = 4
    /\ ThreadsOf(2) = {3, 4}
    /\ InFlight = {}

\* C16: the job holds no connection before its first query; the handle is
\* held exactly while one connection is open, never more than one; and
\* when the process has exited the connection has been closed and the
\* handle cleared.
C16_OneConnectionClosedAtExit ==
    /\ pc = "fetch_books" => (conn = "none" /\ connections = 0)
    /\ connections <= 1
    /\ conn = "open" <=> connections = 1
    /\ pc = "exit" => (conn = "none" /\ connections = 0)

\* C17: no step taken inside the finally block changes the exception that
\* is pending from the try block or leaves the block other than by its
\* end; a statement of delete_assistant that raises sends control to the
\* next store or to the end of delete_assistant; and a job that has exited
\* after calling delete_assistant exits with delete_assistant over and with
\* the exception of the try block, if any, not one of teardown.
C17_TeardownNeverPropagates ==
    /\ [](pc = "exit" /\ teardownCalls > 0
            => (tpc = "done" /\ raisedAt \in TryBlock \cup {"none"}))
    /\ [][pc = "finally"
            => (/\ raisedAt' = raisedAt
                /\ pc' \in {"finally", "exit"}
                /\ pc' = "exit" => tpc = "done"
                /\ tdRaised' # tdRaised => tpc' \in {"list_files", "done"})]_vars

\* the description query raised for the first user, the file deletion
\* failed during teardown, and the job has exited with the exception of
\* the query
C17_Witness ==
    /\ pc = "exit"
    /\ raisedAt = "get_book_info"
    /\ teardownCalls = 1
    /\ tdRaised = {"delete_file"}
    /\ vendor["asst"] = "deleted"

\* C18: while the assistant exists, the index it is bound to exists and
\* holds the catalog file; the assistant is created only after the index
\* and the file, and the index and the file are deleted only after the
\* assistant.
C18_LiveAssistantHasLiveIndex ==
    /\ vendor["asst"] = "live"
          => (vendor["vs1"] = "live" /\ vendor["file1"] = "live")
    /\ vendor["asst"] # "none"
          => (vendor["vs1"] # "none" /\ vendor["file1"] # "none")
    /\ (vendor["vs1"] = "deleted" \/ vendor["file1"] = "deleted")
          => vendor["asst"] = "deleted"

\* the deletion of the assistant failed during teardown: the job has
\* exited and the assistant, its index and the file are all still there
C18_Witness ==
    /\ pc = "exit"
    /\ teardownCalls = 1
    /\ tdRaised = {"delete_assistant"}
    /\ vendor = [r \in Resources |-> "live"]

====
